---------------------------- MODULE Spec2Model ----------------------------
(***************************************************************************)
(* Model of code_review.py: a driver that validates its environment,       *)
(* fetches a pull request and its changed files (two GETs), hands the      *)
(* rendered report to the `cody` command line tool and posts the tool's    *)
(* output as a comment (one POST).                                         *)
(*                                                                         *)
(* Text is modelled as a sequence of symbols.  A symbol is either one of   *)
(* the characters the code treats specially ("/", ":", blank, newline,     *)
(* double quote, backslash) or an opaque run of other characters.          *)
(* Concatenation is \o, so f-strings and += are sequences of \o.           *)
(*                                                                         *)
(* The requests library is taken at version 2.27 or later, where           *)
(* Response.json() raises requests.exceptions.JSONDecodeError, a           *)
(* RequestException that carries no response.                              *)
(***************************************************************************)
EXTENDS Integers, Sequences, FiniteSets, TLC

VARIABLES env, pc, exit_code, calls, answers,
          token, api_url, repo_host, repo_owner, repo_name, pr_number,
          result, pr_details, tool_result, comment, post_return

vars == <<env, pc, exit_code, calls, answers,
          token, api_url, repo_host, repo_owner, repo_name, pr_number,
          result, pr_details, tool_result, comment, post_return>>

-----------------------------------------------------------------------------
(* Bounds *)

\* Largest number of entries in the files list returned by the files GET.
MaxFiles == 2

-----------------------------------------------------------------------------
(* Symbols *)

NL == "\n"
SP == " "
SLASH == "/"
COLON == ":"
QUOTE == "\""
BSL == "\\"

\* str.strip() without arguments removes leading and trailing whitespace.
Whitespace == {SP, NL, "\t", "\r"}

\* Python's None, and how an f-string renders it.
None == [set |-> FALSE, val |-> <<>>]
Some(s) == [set |-> TRUE, val |-> s]
NoneText == <<"None">>

\* Variant: only an unset variable is falsy.
Truthy_SetOnly(v) == v.set

\* Truth value of an optional string: None and "" are falsy.
Truthy(v) == v.set /\ v.val # <<>>

\* Python `a or b`.
Or(a, b) == IF Truthy(a) THEN a ELSE b

\* f"{v}" for an optional string.
Fmt(v) == IF v.set THEN v.val ELSE NoneText

\* Index of the first occurrence of a symbol of `stops` in s, or 0.
FirstIn(s, stops) ==
    IF \E i \in 1..Len(s) : s[i] \in stops
    THEN CHOOSE i \in 1..Len(s) : s[i] \in stops /\ \A j \in 1..(i-1) : s[j] \notin stops
    ELSE 0

\* The prefix of s before the first symbol of `stops` (all of s if none).
TakeUntil(s, stops) ==
    IF FirstIn(s, stops) = 0 THEN s ELSE SubSeq(s, 1, FirstIn(s, stops) - 1)

\* str.split(sep) for a one-character separator: a list of strings.
RECURSIVE Split(_, _)
Split(s, sep) ==
    IF FirstIn(s, {sep}) = 0
    THEN <<s>>
    ELSE <<SubSeq(s, 1, FirstIn(s, {sep}) - 1)>>
         \o Split(SubSeq(s, FirstIn(s, {sep}) + 1, Len(s)), sep)

\* Variant: strips at the left only.
RECURSIVE Strip_LeftOnly(_)
Strip_LeftOnly(s) == IF s # <<>> /\ Head(s) \in Whitespace THEN Strip_LeftOnly(Tail(s)) ELSE s

\* str.lstrip(), str.rstrip() and str.strip().
RECURSIVE LStrip(_)
LStrip(s) == IF s # <<>> /\ Head(s) \in Whitespace THEN LStrip(Tail(s)) ELSE s

RECURSIVE RStrip(_)
RStrip(s) ==
    IF s # <<>> /\ s[Len(s)] \in Whitespace THEN RStrip(SubSeq(s, 1, Len(s) - 1)) ELSE s

Strip(s) == RStrip(LStrip(s))

\* str.lower() on the host names the model uses.
LowerSym(c) == IF c = "GHE.Example.com" THEN "ghe.example.com" ELSE c
Lower(s) == [i \in 1..Len(s) |-> LowerSym(s[i])]

\* urlparse(url).hostname: the network location after "scheme://", up to the
\* next "/", "?" or "#", without the port, lower-cased; None if there is none.
UrlHostname(url) ==
    IF Len(url) >= 4 /\ url[2] = COLON /\ url[3] = SLASH /\ url[4] = SLASH
    THEN LET netloc == TakeUntil(SubSeq(url, 5, Len(url)), {SLASH, "?", "#"})
             host == TakeUntil(netloc, {COLON})
         IN  IF host = <<>> THEN None ELSE Some(Lower(host))
    ELSE None

\* json.dumps of a string: quoted, with quote, backslash and newline escaped.
RECURSIVE JsonEscape(_)
JsonEscape(s) ==
    IF s = <<>> THEN <<>>
    ELSE (CASE Head(s) = QUOTE -> <<BSL, QUOTE>>
            [] Head(s) = BSL -> <<BSL, BSL>>
            [] Head(s) = NL -> <<BSL, "n">>
            [] Head(s) = "\t" -> <<BSL, "t">>
            [] Head(s) = "\r" -> <<BSL, "r">>
            [] OTHER -> <<Head(s)>>) \o JsonEscape(Tail(s))

\* json.dumps({"body": comment_body})
JsonDumps(payload) ==
    <<"{", QUOTE, "body", QUOTE, COLON, SP, QUOTE>> \o JsonEscape(payload.body) \o <<QUOTE, "}">>

-----------------------------------------------------------------------------
(* The environment the process is started in *)

PULL_REQUEST == <<"pull_request">>

\* api_url default of os.environ.get("GITHUB_API_URL", ...)
DefaultApiUrl == <<"https", COLON, SLASH, SLASH, "api.github.com">>

GhesApiUrl ==
    <<"https", COLON, SLASH, SLASH, "GHE.Example.com", COLON, "8443", SLASH, "api", SLASH, "v3">>

EnvNames ==
    {"GITHUB_EVENT_NAME", "GITHUB_TOKEN", "GH_TOKEN", "SRC_ENDPOINT", "SRC_ACCESS_TOKEN",
     "GITHUB_API_URL", "GITHUB_REPOSITORY", "GITHUB_REF"}

\* Values each variable is drawn from: unset, empty, and set.
EnvValues(name) ==
    CASE name = "GITHUB_EVENT_NAME" -> {None, Some(<<"push">>), Some(PULL_REQUEST)}
      [] name = "GITHUB_TOKEN" -> {None, Some(<<>>), Some(<<"ghs_A">>)}
      [] name = "GH_TOKEN" -> {None, Some(<<>>), Some(<<"ghp_B">>)}
      [] name = "SRC_ENDPOINT" -> {None, Some(<<>>), Some(<<"https", COLON, SLASH, SLASH, "sg.example.com">>)}
      [] name = "SRC_ACCESS_TOKEN" -> {None, Some(<<>>), Some(<<"sgp_C">>)}
      [] name = "GITHUB_API_URL" -> {None, Some(GhesApiUrl)}
      [] name = "GITHUB_REPOSITORY" ->
            {None, Some(<<"acme", SLASH, "widgets">>), Some(<<"acme">>),
             Some(<<"acme", SLASH, "widgets", SLASH, "x">>)}
      [] name = "GITHUB_REF" ->
            {None, Some(<<"refs", SLASH, "pull", SLASH, "42", SLASH, "merge">>),
             Some(<<"refs", SLASH, "heads", SLASH, "main">>), Some(<<"main">>)}

\* os.environ.get(name) and os.environ.get(name, default)
EnvironGet(name) == env[name]
EnvironGetDefault(name, default) == IF env[name].set THEN env[name] ELSE Some(default)

-----------------------------------------------------------------------------
(* What the outside world can answer *)

\* JSON values of a key of an object: a string, null, or the key is missing.
\* dict.get(key) gives None for the last two.
JStr(s) == [k |-> "str", v |-> s]
JNull == [k |-> "null", v |-> <<>>]
JAbsent == [k |-> "absent", v |-> <<>>]

\* dict.get(key) and dict.get(key, default)
DictGet(j) == IF j.k = "str" THEN Some(j.v) ELSE None
DictGetDefault(j, default) == IF j.k = "absent" THEN Some(default) ELSE DictGet(j)

PrPayloads ==
    {[title |-> JStr(<<"Fix", SP, "bug">>), body |-> JStr(<<"Closes", SP, "#1">>)],
     [title |-> JStr(<<"Fix", SP, "bug">>), body |-> JNull],
     [title |-> JAbsent, body |-> JAbsent]}

FileEntries ==
    {[filename |-> JStr(<<"a.py">>), patch |-> JStr(<<"@@", SP, "-1", SP, "+1", SP, "@@">>)],
     [filename |-> JStr(<<"b.bin">>), patch |-> JAbsent],
     [filename |-> JStr(<<"c.py">>), patch |-> JNull]}

SeqsUpTo(S, n) == UNION {[1..k -> S] : k \in 0..n}

FilesPayloads == SeqsUpTo(FileEntries, MaxFiles)

\* The one status add_pr_comment accepts.
Created == 201

\* Final status codes of a GET and of the POST.  Redirects are followed, so
\* a final 3xx is one without a Location to follow.
GetStatuses == {200, 300, 404, 500}
PostStatuses == {Created, 200, 404, 500}

\* An HTTP exchange either gives a response (a status and a body that is
\* JSON or is not) or raises a RequestException, which may carry a response
\* (TooManyRedirects) or not (ConnectionError, Timeout).
HttpOutcomes(statuses, payloads, nodata) ==
    [type : {"response"}, status : statuses, json : {TRUE}, data : payloads, has_response : {TRUE}]
    \cup [type : {"response"}, status : statuses, json : {FALSE}, data : {nodata}, has_response : {TRUE}]
    \cup [type : {"exception"}, status : {0}, json : {FALSE}, data : {nodata}, has_response : BOOLEAN]

NoPrPayload == [title |-> JAbsent, body |-> JAbsent]

\* Bodies of the answer to the comment POST.
CommentPayloads == {<<"{", QUOTE, "id", QUOTE, COLON, "1", "}">>}

\* Variant: raises for 4xx only.
RaisesForStatus_ClientOnly(status) == 400 <= status /\ status < 500

\* Response.raise_for_status() raises HTTPError exactly for 4xx and 5xx.
RaisesForStatus(status) == 400 <= status /\ status < 600

\* How a try block `requests.get; raise_for_status; json` ends:
\*   "ok"        no exception, the body was parsed
\*   "fatal"     RequestException with e.response set: exit(1)
\*   "swallowed" RequestException with e.response None: printed, execution goes on
GetEnding(r) ==
    IF r.type = "exception" THEN (IF r.has_response THEN "fatal" ELSE "swallowed")
    ELSE IF RaisesForStatus(r.status) THEN "fatal"
    ELSE IF ~r.json THEN "swallowed"
    ELSE "ok"

\* Output of the cody process.
Stdouts ==
    {<<>>,
     <<"LGTM">>,
     <<NL, SP, "**Summary**", SP, QUOTE, "ok", QUOTE, NL, "C:", BSL, "n", SP, NL>>}

Stderrs == {<<>>, <<"cody:", SP, "boom", NL>>}

\* Popen.returncode: 0..255 for an exit, -N for death by signal N.
ReturnCodes == {0, 1, 2, 255, 0 - 9}

ToolOutcomes ==
    [type : {"completed"}, returncode : ReturnCodes, stdout : Stdouts, stderr : Stderrs]
    \cup [type : {"FileNotFoundError", "Exception"}, returncode : {0}, stdout : {<<>>}, stderr : {<<>>}]

\* Variant: every failure becomes 1.
ExitStatus_One(n) == IF n = 0 THEN 0 ELSE 1

\* The status the operating system reports for exit(n): the low eight bits.
ExitStatus(n) == n % 256

NoResult == [type |-> "none", returncode |-> 0, stdout |-> <<>>, stderr |-> <<>>]

-----------------------------------------------------------------------------
(* Requests the program makes, in the order it makes them *)

GetCall(url, tok) ==
    [kind |-> "GET", url |-> url, auth |-> <<"token", SP>> \o tok, data |-> <<>>, args |-> <<>>]

RunCall(command_list) ==
    [kind |-> "RUN", url |-> <<>>, auth |-> <<>>, data |-> <<>>, args |-> command_list]

PostCall(url, tok, data) ==
    [kind |-> "POST", url |-> url, auth |-> <<"Bearer", SP>> \o tok, data |-> data, args |-> <<>>]

\* pr_api_url and files_api_url of get_pull_request_details, url of add_pr_comment
PrApiUrl(api, owner, repo, number) ==
    api \o <<SLASH, "repos", SLASH>> \o owner \o <<SLASH>> \o repo \o <<SLASH, "pulls", SLASH>> \o number

FilesApiUrl(api, owner, repo, number) ==
    PrApiUrl(api, owner, repo, number) \o <<SLASH, "files">>

CommentsUrl(api, owner, repo, number) ==
    api \o <<SLASH, "repos", SLASH>> \o owner \o <<SLASH>> \o repo
        \o <<SLASH, "issues", SLASH>> \o number \o <<SLASH, "comments">>

-----------------------------------------------------------------------------
(* The report *)

DetailsHeader == <<"--- Pull Request Details ---">>
FilesHeader == <<"--- Changed Files ---">>
Delimiter == <<"--------------------------------">>
NoPatch == <<"No", SP, "patch", SP, "data", SP, "available.">>

\* What the first try block appends to result.
RenderPr(pr_data) ==
    DetailsHeader \o <<NL>>
    \o <<"Title:", SP>> \o Fmt(DictGet(pr_data.title)) \o <<NL>>
    \o <<"Body:", NL>> \o Fmt(DictGet(pr_data.body)) \o <<NL, NL>>

\* What one iteration of the loop over files_data appends.
RenderFile(file_info) ==
    <<"File", SP, "Name:", SP>> \o Fmt(DictGet(file_info.filename)) \o <<NL>>
    \o <<"Patch:", NL>>
    \o Delimiter \o <<NL>>
    \o Fmt(DictGetDefault(file_info.patch, NoPatch)) \o <<NL>>
    \o Delimiter

\* The loop over files_data.
RECURSIVE RenderFileList(_)
RenderFileList(files_data) ==
    IF files_data = <<>> THEN <<>>
    ELSE RenderFile(Head(files_data)) \o RenderFileList(Tail(files_data))

\* What the second try block appends to result.
RenderFiles(files_data) == FilesHeader \o <<NL>> \o RenderFileList(files_data)

\* The fixed text around {pr_details} in cody_prompt.
PromptHead ==
    <<"You are an expert code reviewer [...] specific to the changed lines.", NL, NL>>

PromptTail ==
    <<NL, NL, "**Instructions**: [...] definitions of referenced variables).", NL>>

CodyPrompt(details) == PromptHead \o details \o PromptTail

\* command_list of execute_cody_cli
CommandList(repo, prompt) == <<<<"cody">>, <<"chat">>, <<"--context-repo">>, repo, <<"-m">>, prompt>>

\* f"{repo_host}/{repo_owner}/{repo_name}"
ContextRepo(host, owner, repo) == Fmt(host) \o <<SLASH>> \o owner \o <<SLASH>> \o repo

-----------------------------------------------------------------------------
(* State *)

\* calls is the list of requests made so far and answers the list of what
\* came back for each (an element of HttpOutcomes or of ToolOutcomes).
\* pc: "main" before the driver has run, then the stage about to run
\* ("get_pr", "get_files", "cody", "comment"), and "exited" at the end.
\* exit_code is the status of the process once pc = "exited".
Init ==
    /\ env \in [GITHUB_EVENT_NAME : EnvValues("GITHUB_EVENT_NAME"),
                GITHUB_TOKEN : EnvValues("GITHUB_TOKEN"),
                GH_TOKEN : EnvValues("GH_TOKEN"),
                SRC_ENDPOINT : EnvValues("SRC_ENDPOINT"),
                SRC_ACCESS_TOKEN : EnvValues("SRC_ACCESS_TOKEN"),
                GITHUB_API_URL : EnvValues("GITHUB_API_URL"),
                GITHUB_REPOSITORY : EnvValues("GITHUB_REPOSITORY"),
                GITHUB_REF : EnvValues("GITHUB_REF")]
    /\ pc = "main"
    /\ exit_code = 0
    /\ calls = <<>>
    /\ answers = <<>>
    /\ token = None
    /\ api_url = <<>>
    /\ repo_host = None
    /\ repo_owner = <<>>
    /\ repo_name = <<>>
    /\ pr_number = <<>>
    /\ result = <<>>
    /\ pr_details = <<>>
    /\ tool_result = NoResult
    /\ comment = <<>>
    /\ post_return = None

\* exit(n), and the end of the script (n = 0)
Exit(n) == pc' = "exited" /\ exit_code' = ExitStatus(n)

\* An uncaught exception: the interpreter prints a traceback and exits with 1.
Uncaught == Exit(1)

-----------------------------------------------------------------------------
(* The driver up to the first stage *)

\* Variant: any event passes.
IsPullRequestEvent_AnyEvent(name) == name.set

\* os.environ.get("GITHUB_EVENT_NAME") == "pull_request"
IsPullRequestEvent(name) == name = Some(PULL_REQUEST)

\* token := os.environ.get("GITHUB_TOKEN") or os.environ.get("GH_TOKEN")
TokenFromEnv == Or(EnvironGet("GITHUB_TOKEN"), EnvironGet("GH_TOKEN"))

\* not (cody_endpoint := ...) or not (cody_access_token := ...)
CodyEnvMissing == ~Truthy(EnvironGet("SRC_ENDPOINT")) \/ ~Truthy(EnvironGet("SRC_ACCESS_TOKEN"))

\* The else branch of the event check.
NotPullRequest ==
    /\ pc = "main"
    /\ ~IsPullRequestEvent(EnvironGet("GITHUB_EVENT_NAME"))
    /\ Exit(1)
    /\ UNCHANGED <<env, calls, answers, token, api_url, repo_host, repo_owner, repo_name, pr_number,
                   result, pr_details, tool_result, comment, post_return>>

\* No authentication token.
MissingToken ==
    /\ pc = "main"
    /\ IsPullRequestEvent(EnvironGet("GITHUB_EVENT_NAME"))
    /\ ~Truthy(TokenFromEnv)
    /\ token' = TokenFromEnv
    /\ Exit(1)
    /\ UNCHANGED <<env, calls, answers, api_url, repo_host, repo_owner, repo_name, pr_number,
                   result, pr_details, tool_result, comment, post_return>>

\* No endpoint or no access token for cody.
MissingCodyEnv ==
    /\ pc = "main"
    /\ IsPullRequestEvent(EnvironGet("GITHUB_EVENT_NAME"))
    /\ Truthy(TokenFromEnv)
    /\ CodyEnvMissing
    /\ token' = TokenFromEnv
    /\ Exit(1)
    /\ UNCHANGED <<env, calls, answers, api_url, repo_host, repo_owner, repo_name, pr_number,
                   result, pr_details, tool_result, comment, post_return>>

\* Variant: takes the second segment.
PrNumberOf_Second(segments) == segments[2]

\* .split("/")[2] of GITHUB_REF, given the list of its segments.
PrNumberOf(segments) == segments[3]

\* The checks passed: api_url, repo_host, repo_owner, repo_name and pr_number
\* are derived.  None.split is an AttributeError, unpacking a list that has
\* not two elements a ValueError, a missing third segment an IndexError.
ParseContext ==
    /\ pc = "main"
    /\ IsPullRequestEvent(EnvironGet("GITHUB_EVENT_NAME"))
    /\ Truthy(TokenFromEnv)
    /\ ~CodyEnvMissing
    /\ token' = TokenFromEnv
    /\ api_url' = EnvironGetDefault("GITHUB_API_URL", DefaultApiUrl).val
    /\ repo_host' = UrlHostname(api_url')
    /\ LET repository == EnvironGet("GITHUB_REPOSITORY")
           ref == EnvironGet("GITHUB_REF")
           repo_parts == Split(repository.val, SLASH)
           ref_parts == Split(ref.val, SLASH)
       IN  IF ~repository.set \/ Len(repo_parts) # 2
           THEN /\ Uncaught
                /\ UNCHANGED <<repo_owner, repo_name, pr_number>>
           ELSE /\ repo_owner' = repo_parts[1]
                /\ repo_name' = repo_parts[2]
                /\ IF ~ref.set \/ Len(ref_parts) < 3
                   THEN Uncaught /\ UNCHANGED pr_number
                   ELSE /\ pr_number' = PrNumberOf(ref_parts)
                        /\ pc' = "get_pr"
                        /\ UNCHANGED exit_code
    /\ UNCHANGED <<env, calls, answers, result, pr_details, tool_result, comment, post_return>>

-----------------------------------------------------------------------------
(* get_pull_request_details *)

\* The first try block: GET of the pull request.
GetPullRequest ==
    /\ pc = "get_pr"
    /\ calls' = Append(calls, GetCall(PrApiUrl(api_url, repo_owner, repo_name, pr_number), token.val))
    /\ \E r \in HttpOutcomes(GetStatuses, PrPayloads, NoPrPayload) :
          /\ answers' = Append(answers, r)
          /\ CASE GetEnding(r) = "ok" ->
                     /\ result' = result \o RenderPr(r.data)
                     /\ pc' = "get_files"
                     /\ UNCHANGED exit_code
               [] GetEnding(r) = "swallowed" ->
                     /\ pc' = "get_files"
                     /\ UNCHANGED <<result, exit_code>>
               [] GetEnding(r) = "fatal" ->
                     /\ Exit(1)
                     /\ UNCHANGED result
    /\ UNCHANGED <<env, token, api_url, repo_host, repo_owner, repo_name, pr_number,
                   pr_details, tool_result, comment, post_return>>

\* The second try block: GET of the changed files, then return result.
GetFiles ==
    /\ pc = "get_files"
    /\ calls' = Append(calls, GetCall(FilesApiUrl(api_url, repo_owner, repo_name, pr_number), token.val))
    /\ \E r \in HttpOutcomes(GetStatuses, FilesPayloads, <<>>) :
          /\ answers' = Append(answers, r)
          /\ CASE GetEnding(r) = "ok" ->
                     /\ result' = result \o RenderFiles(r.data)
                     /\ pr_details' = result'
                     /\ pc' = "cody"
                     /\ UNCHANGED exit_code
               [] GetEnding(r) = "swallowed" ->
                     /\ pr_details' = result
                     /\ pc' = "cody"
                     /\ UNCHANGED <<result, exit_code>>
               [] GetEnding(r) = "fatal" ->
                     /\ Exit(1)
                     /\ UNCHANGED <<result, pr_details>>
    /\ UNCHANGED <<env, token, api_url, repo_host, repo_owner, repo_name, pr_number,
                   tool_result, comment, post_return>>

-----------------------------------------------------------------------------
(* execute_cody_cli *)

\* Variant: the return code is not looked at.
ToolSucceeded_Always(completed) == TRUE

\* result.returncode == 0
ToolSucceeded(completed) == completed.returncode = 0

\* The process is started with the command list; it completes with a return
\* code, or subprocess.run raises FileNotFoundError or another exception.
\* exit() raises SystemExit, which `except Exception` does not catch.
ExecuteCodyCli ==
    /\ pc = "cody"
    /\ calls' = Append(calls, RunCall(CommandList(ContextRepo(repo_host, repo_owner, repo_name),
                                                  CodyPrompt(pr_details))))
    /\ \E o \in ToolOutcomes :
          /\ answers' = Append(answers, o)
          /\ tool_result' = o
          /\ IF o.type = "completed"
             THEN IF ToolSucceeded(o)
                  THEN /\ comment' = Strip(o.stdout)
                       /\ pc' = "comment"
                       /\ UNCHANGED exit_code
                  ELSE /\ Exit(o.returncode)
                       /\ UNCHANGED comment
             ELSE /\ Exit(1)
                  /\ UNCHANGED comment
    /\ UNCHANGED <<env, token, api_url, repo_host, repo_owner, repo_name, pr_number,
                   result, pr_details, post_return>>

-----------------------------------------------------------------------------
(* add_pr_comment, and the end of the script *)

\* Variant: any answer with a JSON body counts as success.
PostReturn_AnyStatus(r) ==
    IF r.type = "exception" THEN None
    ELSE IF r.json THEN Some(r.data)
    ELSE None

\* The value add_pr_comment returns.  response.json() of a body that is not
\* JSON raises a RequestException, in either branch, and the handler returns
\* None.
PostReturn(r) ==
    IF r.type = "exception" THEN None
    ELSE IF r.status = Created /\ r.json THEN Some(r.data)
    ELSE None

AddPrComment ==
    /\ pc = "comment"
    /\ calls' = Append(calls, PostCall(CommentsUrl(api_url, repo_owner, repo_name, pr_number),
                                        token.val, JsonDumps([body |-> comment])))
    /\ \E r \in HttpOutcomes(PostStatuses, CommentPayloads, <<>>) :
          /\ answers' = Append(answers, r)
          /\ post_return' = PostReturn(r)
    /\ Exit(0)
    /\ UNCHANGED <<env, token, api_url, repo_host, repo_owner, repo_name, pr_number,
                   result, pr_details, tool_result, comment>>

-----------------------------------------------------------------------------

Next ==
    \/ NotPullRequest
    \/ MissingToken
    \/ MissingCodyEnv
    \/ ParseContext
    \/ GetPullRequest
    \/ GetFiles
    \/ ExecuteCodyCli
    \/ AddPrComment

Spec == Init /\ [][Next]_vars

-----------------------------------------------------------------------------
(* Vocabulary of the properties.  These definitions describe the expected   *)
(* behaviour independently of the operators the actions are built from.     *)

Unset(v) == ~v.set
Empty(v) == ~v.set \/ v.val = <<>>

EventIsPullRequest == env.GITHUB_EVENT_NAME.set /\ env.GITHUB_EVENT_NAME.val = <<"pull_request">>

Exited(code) == pc = "exited" /\ exit_code = code

\* The process made no request and started no subprocess, and if it has
\* ended, it ended with 1.
RefusedToRun == calls = <<>> /\ pc \in {"main", "exited"} /\ (pc = "exited" => exit_code = 1)

CallsOfKind(kind) == {i \in 1..Len(calls) : calls[i].kind = kind}

IsPrGet(i) == i = 1 /\ calls[i].kind = "GET"
IsFilesGet(i) == i = 2 /\ calls[i].kind = "GET"

\* The run stopped at request i with exit code 1, before the tool and the POST.
FetchFatalAt(i) ==
    /\ Exited(1)
    /\ Len(calls) = i
    /\ CallsOfKind("RUN") = {}
    /\ CallsOfKind("POST") = {}

\* C1: when GITHUB_EVENT_NAME is unset or is not pull_request, no request is
\* made and no subprocess is started, and the process ends with code 1,
\* whatever the other variables are.
C1_NotPullRequestRefuses == ~EventIsPullRequest => RefusedToRun

\* A run outside a pull request has ended, although every other variable
\* would have let it proceed.
C1_Witness ==
    /\ env.GITHUB_EVENT_NAME = Some(<<"push">>)
    /\ ~Empty(env.GITHUB_TOKEN) /\ ~Empty(env.SRC_ENDPOINT) /\ ~Empty(env.SRC_ACCESS_TOKEN)
    /\ env.GITHUB_REPOSITORY = Some(<<"acme", "/", "widgets">>)
    /\ env.GITHUB_REF = Some(<<"refs", "/", "pull", "/", "42", "/", "merge">>)
    /\ Exited(1)

\* C2: in a pull request run, each of (a) no non-empty GITHUB_TOKEN or
\* GH_TOKEN, (b) no non-empty SRC_ENDPOINT, (c) no non-empty SRC_ACCESS_TOKEN
\* makes the process end with code 1 before any request; and with
\* GITHUB_TOKEN empty and GH_TOKEN non-empty the token check passes and every
\* request is authenticated with GH_TOKEN.
C2_MissingVariableRefuses ==
    /\ (EventIsPullRequest
        /\ \/ (Empty(env.GITHUB_TOKEN) /\ Empty(env.GH_TOKEN))
           \/ Empty(env.SRC_ENDPOINT)
           \/ Empty(env.SRC_ACCESS_TOKEN))
       => RefusedToRun
    /\ (EventIsPullRequest
        /\ Empty(env.GITHUB_TOKEN) /\ ~Empty(env.GH_TOKEN)
        /\ ~Empty(env.SRC_ENDPOINT) /\ ~Empty(env.SRC_ACCESS_TOKEN)
        /\ pc # "main")
       => /\ token = env.GH_TOKEN
          /\ \A i \in CallsOfKind("GET") : calls[i].auth = <<"token", " ">> \o env.GH_TOKEN.val
          /\ \A i \in CallsOfKind("POST") : calls[i].auth = <<"Bearer", " ">> \o env.GH_TOKEN.val
          /\ (env.GITHUB_REPOSITORY = Some(<<"acme", "/", "widgets">>)
              /\ env.GITHUB_REF = Some(<<"refs", "/", "pull", "/", "42", "/", "merge">>))
             => (pc = "exited" => calls # <<>>)

\* GITHUB_TOKEN is set but empty, and the comment was posted with GH_TOKEN.
C2_Witness ==
    /\ env.GITHUB_TOKEN = Some(<<>>)
    /\ env.GH_TOKEN = Some(<<"ghp_B">>)
    /\ \E i \in CallsOfKind("POST") : calls[i].auth = <<"Bearer", " ", "ghp_B">>

C4_NetworkExceptionIsFatal ==
    \A i \in CallsOfKind("GET") :
        (answers[i].type = "exception" /\ ~answers[i].has_response) => FetchFatalAt(i)

\* C5: when the tool stage fails the run ends without a POST; the exit code
\* is the tool's exit code (1..255) when the tool ran and exited non-zero,
\* and 1 when the executable was not found or another exception was raised.
C5_ToolFailureExitCode ==
    \A i \in CallsOfKind("RUN") :
        LET o == answers[i]
        IN  (o.type # "completed" \/ o.returncode # 0)
            => /\ pc = "exited"
               /\ CallsOfKind("POST") = {}
               /\ (o.type = "completed" /\ o.returncode \in 1..255) => exit_code = o.returncode
               /\ o.type \in {"FileNotFoundError", "Exception"} => exit_code = 1

\* The tool exited with 2 and so did the process; in another run the
\* executable was missing.
C5_Witness ==
    /\ pc = "exited"
    /\ tool_result.type = "completed"
    /\ tool_result.returncode = 2
    /\ tool_result.stderr # <<>>
    /\ exit_code = 2

\* C6: the POST never ends the run with a failure: the run ends with code 0
\* whatever the answer; the value returned is None unless the status is 201,
\* and a value that is not None is the parsed body of the answer.
C6_PublishNeverFatal ==
    \A i \in CallsOfKind("POST") :
        /\ Exited(0)
        /\ (answers[i].type = "exception" \/ answers[i].status # 201) => ~post_return.set
        /\ post_return.set =>
              /\ answers[i].type = "response" /\ answers[i].status = 201 /\ answers[i].json
              /\ post_return.val = answers[i].data

\* The POST was answered 200 with a JSON body, and None was returned.
C6_Witness ==
    /\ \E i \in CallsOfKind("POST") :
          answers[i].type = "response" /\ answers[i].status = 200 /\ answers[i].json
    /\ ~post_return.set
    /\ Exited(0)

\* The stage a request belongs to.
StageOf(c) ==
    IF c.kind = "GET"
    THEN (IF c.url[Len(c.url)] = "files" THEN "files GET" ELSE "pull request GET")
    ELSE c.kind

StageOrder == <<"pull request GET", "files GET", "RUN", "POST">>

\* C7: the requests are made in the order pull request GET, files GET, tool,
\* POST, each at most once; the tool is started only after both GETs have
\* been answered, and the POST is made only after the tool completed with
\* exit code 0.
C7_FixedOrderNoRetry ==
    /\ Len(calls) <= 4
    /\ \A i \in 1..Len(calls) : StageOf(calls[i]) = StageOrder[i]
    /\ \A i \in CallsOfKind("RUN") : Len(answers) >= 2
    /\ \A i \in CallsOfKind("POST") :
          \E j \in 1..(i-1) :
              /\ calls[j].kind = "RUN"
              /\ answers[j].type = "completed"
              /\ answers[j].returncode = 0

\* All four requests were made.
C7_Witness == Len(calls) = 4 /\ calls[4].kind = "POST" /\ pc = "exited"

\* Lines joined by newlines.
RECURSIVE JoinLines(_)
JoinLines(lines) ==
    IF lines = <<>> THEN <<>>
    ELSE IF Len(lines) = 1 THEN lines[1]
    ELSE lines[1] \o <<"\n">> \o JoinLines(Tail(lines))

\* The text of a JSON string, or None for null and for a missing key.
JText(j) == IF j.k = "str" THEN j.v ELSE <<"None">>

ExpectedFileLines(f) ==
    << <<"File", " ", "Name:", " ">> \o JText(f.filename),
       <<"Patch:">>,
       <<"--------------------------------">>,
       IF f.patch.k = "absent" THEN <<"No", " ", "patch", " ", "data", " ", "available.">>
                               ELSE JText(f.patch),
       <<"--------------------------------">> >>

RECURSIVE ExpectedFilesLines(_)
ExpectedFilesLines(files) ==
    IF files = <<>> THEN <<>>
    ELSE ExpectedFileLines(Head(files)) \o ExpectedFilesLines(Tail(files))

ExpectedReportLines(pr, files) ==
    << <<"--- Pull Request Details ---">>,
       <<"Title:", " ">> \o JText(pr.title),
       <<"Body:">>,
       JText(pr.body),
       <<>>,
       <<"--- Changed Files ---">> >>
    \o ExpectedFilesLines(files)

GetSucceeded(i) ==
    /\ i <= Len(answers)
    /\ answers[i].type = "response"
    /\ answers[i].status \in 200..299
    /\ answers[i].json

\* C8: when both GETs succeed, the report is the details header, the title
\* line, the body block, the changed-files header and, for each file in list
\* order, its file-name line and its patch (or the placeholder when the entry
\* has no patch key) between two delimiter lines; every one of these is a
\* line of the report (the last line may or may not end with a newline).
C8_ReportIsGoldenText ==
    (GetSucceeded(1) /\ GetSucceeded(2))
    => \/ pr_details = JoinLines(ExpectedReportLines(answers[1].data, answers[2].data))
       \/ pr_details = JoinLines(ExpectedReportLines(answers[1].data, answers[2].data)) \o <<"\n">>

NoSlash(s) == \A k \in 1..Len(s) : s[k] # "/"

SlashCount(s) == Cardinality({k \in 1..Len(s) : s[k] = "/"})

EndsWith(s, suffix) ==
    Len(suffix) <= Len(s) /\ SubSeq(s, Len(s) - Len(suffix) + 1, Len(s)) = suffix

\* n is the third "/"-separated segment of s.
IsThirdSegment(n, s) ==
    /\ NoSlash(n)
    /\ \E i \in 1..(Len(s) + 1) :
          /\ SlashCount(SubSeq(s, 1, i - 1)) = 2
          /\ i > 1 /\ s[i - 1] = "/"
          /\ SubSeq(s, i, i + Len(n) - 1) = n
          /\ (i + Len(n) > Len(s) \/ s[i + Len(n)] = "/")

ApiBase == IF env.GITHUB_API_URL.set THEN env.GITHUB_API_URL.val
           ELSE <<"https", ":", "/", "/", "api.github.com">>

\* C9: owner and repository name are the two "/"-separated parts of
\* GITHUB_REPOSITORY and the PR number is the third "/"-separated segment of
\* GITHUB_REF ("acme/widgets" gives acme and widgets, "refs/pull/42/merge"
\* gives 42); every request of the run is built from these same values.
C9_OneContextForAllRequests ==
    pc \notin {"main"} /\ (pc = "exited" => calls # <<>>)
    => /\ NoSlash(repo_owner) /\ NoSlash(repo_name)
       /\ env.GITHUB_REPOSITORY.val = repo_owner \o <<"/">> \o repo_name
       /\ IsThirdSegment(pr_number, env.GITHUB_REF.val)
       /\ env.GITHUB_REPOSITORY.val = <<"acme", "/", "widgets">>
          => repo_owner = <<"acme">> /\ repo_name = <<"widgets">>
       /\ env.GITHUB_REF.val = <<"refs", "/", "pull", "/", "42", "/", "merge">>
          => pr_number = <<"42">>
       /\ \A i \in 1..Len(calls) :
             CASE StageOf(calls[i]) = "pull request GET" ->
                     calls[i].url = ApiBase \o <<"/", "repos", "/">> \o repo_owner \o <<"/">>
                                    \o repo_name \o <<"/", "pulls", "/">> \o pr_number
               [] StageOf(calls[i]) = "files GET" ->
                     calls[i].url = ApiBase \o <<"/", "repos", "/">> \o repo_owner \o <<"/">>
                                    \o repo_name \o <<"/", "pulls", "/">> \o pr_number
                                    \o <<"/", "files">>
               [] StageOf(calls[i]) = "POST" ->
                     calls[i].url = ApiBase \o <<"/", "repos", "/">> \o repo_owner \o <<"/">>
                                    \o repo_name \o <<"/", "issues", "/">> \o pr_number
                                    \o <<"/", "comments">>
               [] StageOf(calls[i]) = "RUN" ->
                     /\ calls[i].args[3] = <<"--context-repo">>
                     /\ EndsWith(calls[i].args[4], <<"/">> \o repo_owner \o <<"/">> \o repo_name)
                     /\ SlashCount(calls[i].args[4]) = 2

\* A run for refs/pull/42/merge of acme/widgets made all four requests.
C9_Witness ==
    /\ env.GITHUB_REF = Some(<<"refs", "/", "pull", "/", "42", "/", "merge">>)
    /\ env.GITHUB_REPOSITORY = Some(<<"acme", "/", "widgets">>)
    /\ env.GITHUB_API_URL.set
    /\ Len(calls) = 4
    /\ pr_number = <<"42">>

\* The string a JSON string literal stands for.
RECURSIVE JsonUnescape(_)
JsonUnescape(s) ==
    IF s = <<>> THEN <<>>
    ELSE IF Head(s) = "\\" /\ Len(s) >= 2
         THEN <<(CASE s[2] = "n" -> "\n" [] s[2] = "t" -> "\t" [] s[2] = "r" -> "\r" [] OTHER -> s[2])>>
              \o JsonUnescape(SubSeq(s, 3, Len(s)))
         ELSE <<Head(s)>> \o JsonUnescape(Tail(s))

\* The value of "body" in the JSON object sent.
JsonBodyOf(data) == JsonUnescape(SubSeq(data, 8, Len(data) - 2))

IsJsonBodyObject(data) ==
    /\ Len(data) >= 9
    /\ SubSeq(data, 1, 7) = <<"{", "\"", "body", "\"", ":", " ", "\"">>
    /\ SubSeq(data, Len(data) - 1, Len(data)) = <<"\"", "}">>

Blank == {" ", "\n", "\t", "\r"}

\* t is s without its leading and trailing whitespace.
IsTrimOf(t, s) ==
    /\ t # <<>> => (t[1] \notin Blank /\ t[Len(t)] \notin Blank)
    /\ \E a, b \in 0..Len(s) :
          /\ a + b <= Len(s)
          /\ t = SubSeq(s, a + 1, Len(s) - b)
          /\ \A k \in 1..a : s[k] \in Blank
          /\ \A k \in (Len(s) - b + 1)..Len(s) : s[k] \in Blank

Contains(s, part) ==
    \E k \in 1..(Len(s) - Len(part) + 1) : SubSeq(s, k, k + Len(part) - 1) = part

\* C10: when the tool exits with 0, the run makes exactly one POST, whose
\* JSON body is the tool's standard output without its surrounding
\* whitespace, and the prompt the tool was given contains the fetched report
\* unchanged.
C10_CommentIsTrimmedStdout ==
    \A i \in CallsOfKind("RUN") :
        (answers[i].type = "completed" /\ answers[i].returncode = 0)
        => /\ pc = "exited" => Cardinality(CallsOfKind("POST")) = 1
           /\ Cardinality(CallsOfKind("POST")) <= 1
           /\ \A j \in CallsOfKind("POST") :
                 /\ IsJsonBodyObject(calls[j].data)
                 /\ IsTrimOf(JsonBodyOf(calls[j].data), answers[i].stdout)
           /\ calls[i].args[5] = <<"-m">>
           /\ Contains(calls[i].args[6], pr_details)

\* The tool printed a review with blanks around it, quotes and a backslash in
\* it, and something on standard error; the comment was posted.
C10_Witness ==
    /\ \E i \in CallsOfKind("RUN") :
          /\ answers[i].type = "completed" /\ answers[i].returncode = 0
          /\ Len(answers[i].stdout) > 3 /\ answers[i].stdout[1] \in Blank
          /\ answers[i].stderr # <<>>
    /\ CallsOfKind("POST") # {}
    /\ GetSucceeded(1) /\ GetSucceeded(2) /\ Len(answers[2].data) = 2

=============================================================================
